---- MODULE Spec2Model ----
(***************************************************************************)
(* MddftProblem / MddftSolver of src/mddftsolver.py as a state machine.    *)
(*                                                                         *)
(* A caller holds a problem object, an options mapping and (possibly) an   *)
(* input array; it constructs a solver and calls runDef, solve,            *)
(* _writeScript and _writeCudaHost on it.  Text is modelled as strings,    *)
(* files as sequences of lines, arrays as functions from index tuples to   *)
(* exact complex rationals <<re, im, den>> (value (re + i*im)/den).        *)
(***************************************************************************)
EXTENDS Integers, Sequences, FiniteSets, TLC

(* ------------------------------ bounds --------------------------------- *)

\* Largest transform rank the caller's problems have.
MaxRank == 2

\* Largest element count of an input array the caller passes.
MaxElems == 16

\* Axis sizes of the caller's problems.  Input arrays are enumerated for
\* the shapes whose axes all divide 4 (their transforms are exact over the
\* Gaussian rationals); 16 is there for the names and scripts.
DimSizes == {2, 4, 16}

\* Element values of the caller's input arrays (re, im, den).
SrcVals == {<<1, 0, 1>>, <<2, -1, 1>>}

(* ------------------- snowwhite package constants ----------------------- *)

SW_FORWARD == 1

SW_INVERSE == -1

SW_OPT_REALCTYPE == "realctype"

SW_OPT_COLMAJOR == "colmajor"

SW_OPT_CUDA == "cuda"

(* --------------------------- Python helpers ---------------------------- *)

\* dict.get(key, default)
get(d, key, default) ==
    IF key \in DOMAIN d THEN d[key] ELSE default

\* str(int)
RECURSIVE str(_)
str(n) ==
    IF n < 0 THEN "-" \o str(-n)
    ELSE IF n < 10 THEN SubSeq("0123456789", n + 1, n + 1)
    ELSE str(n \div 10) \o SubSeq("0123456789", (n % 10) + 1, (n % 10) + 1)

\* sep.join(str(n) for n in seq)
RECURSIVE join(_, _)
join(sep, seq) ==
    IF Len(seq) = 0 THEN ""
    ELSE IF Len(seq) = 1 THEN str(seq[1])
    ELSE str(seq[1]) \o sep \o join(sep, Tail(seq))

\* str(list of int), the dimensions being a list: "[8, 8]"
strList(seq) ==
    "[" \o join(", ", seq) \o "]"

\* np.prod(dims)
RECURSIVE prod(_)
prod(seq) ==
    IF Len(seq) = 0 THEN 1 ELSE seq[1] * prod(Tail(seq))

(* ------------------------ exact complex numbers ------------------------ *)

Abs(n) == IF n < 0 THEN -n ELSE n

RECURSIVE Gcd(_, _)
Gcd(a, b) == IF b = 0 THEN a ELSE Gcd(b, a % b)

\* (re + i*im)/den in lowest terms, den > 0
CNorm(re, im, den) ==
    LET g == Gcd(Gcd(Abs(re), Abs(im)), den)
    IN  <<re \div g, im \div g, den \div g>>

CZero == <<0, 0, 1>>

CAdd(a, b) ==
    CNorm(a[1] * b[3] + b[1] * a[3], a[2] * b[3] + b[2] * a[3], a[3] * b[3])

\* a * i^e
CMulI(a, e) ==
    CASE e % 4 = 0 -> a
      [] e % 4 = 1 -> <<-a[2], a[1], a[3]>>
      [] e % 4 = 2 -> <<-a[1], -a[2], a[3]>>
      [] e % 4 = 3 -> <<a[2], -a[1], a[3]>>

\* a / n for a positive integer n
CDiv(a, n) == CNorm(a[1], a[2], a[3] * n)

\* a * exp(2*pi*i * e / n) for n dividing 4
CTwiddle(a, n, e) == CMulI(a, (4 \div n) * e)

(* ------------------------------- arrays -------------------------------- *)

\* the index tuples (0-based) of an array of the given shape
RECURSIVE maxOf(_)
maxOf(seq) ==
    IF Len(seq) = 0 THEN 0
    ELSE IF seq[1] > maxOf(Tail(seq)) THEN seq[1] ELSE maxOf(Tail(seq))

Index(shape) ==
    {j \in [1..Len(shape) -> 0..(maxOf(shape) - 1)] :
        \A d \in 1..Len(shape) : j[d] < shape[d]}

\* xp.zeros(nt, dtype, order=ordc)
zeros(nt, dtype, ordc) ==
    [shape |-> nt, dtype |-> dtype, order |-> ordc,
     data |-> [j \in Index(nt) |-> CZero]]

\* len(a) in the place of xp.size(a)
size_len(a) == a.shape[1]

\* xp.size(a)
size(a) == Cardinality(DOMAIN a.data)

\* xp.divide(a, n, out=a)
divide(a, n) ==
    [a EXCEPT !.data = [j \in DOMAIN a.data |-> CDiv(a.data[j], n)]]

\* The one-dimensional DFT along one axis (0-based), exponent sign sgn, of
\* the line through j: sum over m of x[j with axis := m] * w^(sgn*j*m).
RECURSIVE AxisSum(_, _, _, _, _, _)
AxisSum(x, n, axis, sgn, j, m) ==
    IF m = n THEN CZero
    ELSE CAdd(CTwiddle(x[[j EXCEPT ![axis + 1] = m]], n, sgn * j[axis + 1] * m),
              AxisSum(x, n, axis, sgn, j, m + 1))

\* numpy.fft.fft(a, axis=axis): exponent sign -1, no scaling (norm=None)
fft(a, axis) ==
    [a EXCEPT !.data =
        [j \in DOMAIN a.data |-> AxisSum(a.data, a.shape[axis + 1], axis, -1, j, 0)]]

\* numpy.fft.ifft(a, axis=axis): exponent sign +1, scaled by 1/n (norm=None)
ifft(a, axis) ==
    [a EXCEPT !.data =
        [j \in DOMAIN a.data |->
            CDiv(AxisSum(a.data, a.shape[axis + 1], axis, 1, j, 0),
                 a.shape[axis + 1])]]

\* numpy.fft.fftn(a): fft along every axis, last axis first
RECURSIVE fftnAxes(_, _)
fftnAxes(a, axis) ==
    IF axis < 0 THEN a ELSE fftnAxes(fft(a, axis), axis - 1)

fftn(a) == fftnAxes(a, Len(a.shape) - 1)

\* numpy.fft.ifftn(a): ifft along every axis, last axis first
RECURSIVE ifftnAxes(_, _)
ifftnAxes(a, axis) ==
    IF axis < 0 THEN a ELSE ifftnAxes(ifft(a, axis), axis - 1)

ifftn(a) == ifftnAxes(a, Len(a.shape) - 1)

(* ------------------------------- objects ------------------------------- *)

None == [class |-> "NoneType"]

\* isinstance that takes anything with dimensions for a problem
isinstance_duck(obj, cls) == "_ns" \in DOMAIN obj

\* isinstance(obj, cls); no class of this file has a subclass
isinstance(obj, cls) == obj.class = cls

\* MddftProblem.__init__(ns, k)
MddftProblem(ns, k) ==
    [class |-> "MddftProblem", _ns |-> ns, _k |-> k]

\* MddftProblem.dimensions
dimensions(p) == p._ns

\* MddftProblem.direction
direction(p) == p._k

\* SWSolver.__init__(problem, namebase, opts): the base solver keeps the
\* problem, the options and the base name, and reads the layout and the
\* target backend from the options.
SWSolver__init__(p, name, o) ==
    [class |-> "MddftSolver", _problem |-> p, _opts |-> o, _namebase |-> name,
     _colMajor |-> get(o, SW_OPT_COLMAJOR, FALSE),
     _genCuda |-> get(o, SW_OPT_CUDA, FALSE)]

\* MddftSolver.__init__: the type tag.  Python's default 0 equals no
\* string; "0" stands for it.
typ(o) ==
    IF get(o, SW_OPT_REALCTYPE, "0") = "float" THEN "c" ELSE "z"

\* namebase with the layout suffix added whenever the option key is there
namebase_keyPresent(p, o) ==
    LET ns == join("x", dimensions(p))
        base == IF direction(p) = SW_FORWARD
                THEN typ(o) \o "mddft_fwd_" \o ns
                ELSE typ(o) \o "mddft_inv_" \o ns
    IN  IF SW_OPT_COLMAJOR \in DOMAIN o THEN base \o "_F" ELSE base

\* MddftSolver.__init__: the name handed to the base solver
namebase(p, o) ==
    LET ns == join("x", dimensions(p))
        base == IF direction(p) = SW_FORWARD
                THEN typ(o) \o "mddft_fwd_" \o ns
                ELSE typ(o) \o "mddft_inv_" \o ns
    IN  IF get(o, SW_OPT_COLMAJOR, FALSE) THEN base \o "_F" ELSE base

\* runDef calling fftn in both branches
runDef_fftnOnly(self, src) ==
    IF direction(self._problem) = SW_FORWARD THEN fftn(src) ELSE fftn(src)

\* MddftSolver.runDef
runDef(self, src) ==
    IF direction(self._problem) = SW_FORWARD THEN fftn(src) ELSE ifftn(src)

\* The generator's MDDFT(ns, k) on the array x: the unnormalized
\* multi-dimensional DFT with exponent sign k,
\*   y[j] = sum over m of x[m] * prod over d of exp(2*pi*i*k*j[d]*m[d]/ns[d]),
\* summed one coordinate of m after the other: m holds the coordinates
\* chosen so far, v runs over the values of the next one, and e is the
\* exponent, in quarter turns, of the coordinates chosen so far.
RECURSIVE MDDFTSum(_, _, _, _, _, _, _)
MDDFTSum(x, ns, k, j, m, v, e) ==
    LET d == Len(m) + 1
    IN  IF d > Len(ns) THEN CMulI(x[m], e)
        ELSE IF v = ns[d] THEN CZero
        ELSE CAdd(MDDFTSum(x, ns, k, j, Append(m, v), 0,
                           e + (4 \div ns[d]) * k * j[d] * v),
                  MDDFTSum(x, ns, k, j, m, v + 1, e))

MDDFT(x, ns, k) ==
    [j \in DOMAIN x |-> MDDFTSum(x, ns, k, j, << >>, 0, 0)]

\* self._func(dst, src): the compiled artifact built from the script of
\* _writeScript, MDDFT(ns, direction * -1), writing its result into dst.
_func(self, dst, src) ==
    [dst EXCEPT !.data = MDDFT(src.data, dimensions(self._problem),
                               direction(self._problem) * (-1))]

(* --------------------------- emitted text ------------------------------ *)

\* _writeScript, lines 80-86: the term's name
nameroot(self) ==
    IF self._genCuda THEN self._namebase \o "_cu" ELSE self._namebase

\* the extension left at ".c" for every backend
filetype_c(self) == ".c"

\* _writeScript, lines 83-86: the output file's extension
filetype(self) ==
    IF self._genCuda THEN ".cu" ELSE ".c"

\* _writeScript, lines 90-93: the configuration statement
confLine(self) ==
    IF self._genCuda THEN "conf := LocalConfig.fftx.confGPU();"
    ELSE "conf := LocalConfig.fftx.defaultConf();"

\* the transform term with the sign inverted in the row-major form only
tfcallLine_oneSign(self) ==
    IF self._colMajor
    THEN "    TFCall(TRC(TColMajor(MDDFT(ns, "
             \o str(direction(self._problem))
             \o "))), rec(fname := name, params := []))"
    ELSE "    TFCall(TRC(MDDFT(ns, "
             \o str(direction(self._problem) * (-1))
             \o ")), rec(fname := name, params := []))"

\* _writeScript, lines 96-100: the transform term
tfcallLine(self) ==
    IF self._colMajor
    THEN "    TFCall(TRC(TColMajor(MDDFT(ns, "
             \o str(direction(self._problem) * (-1))
             \o "))), rec(fname := name, params := []))"
    ELSE "    TFCall(TRC(MDDFT(ns, "
             \o str(direction(self._problem) * (-1))
             \o ")), rec(fname := name, params := []))"

\* the real-type option printed whenever the option is there
realCtypeLines_keyPresent(self) ==
    IF SW_OPT_REALCTYPE \in DOMAIN self._opts
    THEN << "opts.TRealCtype := \"float\";" >> ELSE << >>

\* _writeScript, lines 104-105: the real-type option.  Python's default
\* None equals no string; "None" stands for it.
realCtypeLines(self) ==
    IF get(self._opts, SW_OPT_REALCTYPE, "None") = "float"
    THEN << "opts.TRealCtype := \"float\";" >> ELSE << >>

\* MddftSolver._writeScript: the lines printed to script_file, in order
_writeScript(self) ==
    << "Load(fftx);",
       "ImportAll(fftx);",
       confLine(self),
       "t := let(ns := " \o strList(dimensions(self._problem)) \o ",",
       "    name := \"" \o nameroot(self) \o "\",",
       tfcallLine(self),
       ");",
       "opts := conf.getOpts(t);" >>
    \o realCtypeLines(self)
    \o << "tt := opts.tagIt(t);",
          "",
          "c := opts.fftxGen(tt);",
          "PrintTo(\"" \o self._namebase \o filetype(self)
              \o "\", opts.prettyPrint(c));",
          "" >>

\* the element type left at double
hostType_double(self) == "double"

\* _writeCudaHost, lines 117-119: the element type of the signatures
hostType(self) ==
    IF get(self._opts, SW_OPT_REALCTYPE, "0") = "float" THEN "float"
    ELSE "double"

\* MddftSolver._writeCudaHost: the file it opens, writes and closes.  A
\* printed text that ends in a newline leaves an empty line after it.
_writeCudaHost(self) ==
    LET typeName == hostType(self)
        name  == self._namebase
        genby == "Host-to-Device C/CUDA Wrapper generated by " \o self.class
    IN  [name |-> name \o "_host.cu",
         closed |-> TRUE,
         lines |->
          << "/*",
             " * " \o genby,
             " */",
             "",
             "#include <helper_cuda.h> ", "",
             "extern void init_" \o name \o "_cu();",
             "extern void " \o name \o "_cu" \o "(" \o typeName \o "  *Y, "
                 \o typeName \o "  *X);",
             "extern void destroy_" \o name \o "_cu();", "",
             "extern \"C\" { ", "",
             "void init_" \o name \o "()" \o "{",
             "    init_" \o name \o "_cu();",
             "} ", "",
             "void " \o name \o "(" \o typeName \o "  *Y, " \o typeName
                 \o "  *X) {",
             "    " \o name \o "_cu(Y, X);",
             "    checkCudaErrors(cudaGetLastError());",
             "} ", "",
             "void destroy_" \o name \o "() {",
             "    destroy_" \o name \o "_cu();",
             "} ", "",
             "}" >>]

(* --------------------------- caller's inputs --------------------------- *)

\* the dimension lists of rank 1..MaxRank over DimSizes
Dimensions ==
    UNION {[1..r -> DimSizes] : r \in 1..MaxRank}

Problems ==
    {MddftProblem(ns, k) : ns \in Dimensions, k \in {SW_FORWARD, SW_INVERSE}}

\* arguments that are no MddftProblem: a bare SWProblem, and an object of
\* another class that has dimensions and a direction all the same
NonProblems ==
    {[class |-> "SWProblem"],
     [class |-> "OtherProblem", _ns |-> <<4, 2>>, _k |-> SW_INVERSE]}

NoOpts == [key \in {} |-> None]

Options ==
    {r @@ c @@ g :
        r \in {NoOpts} \cup {SW_OPT_REALCTYPE :> v : v \in {"float", "double"}},
        c \in {NoOpts} \cup {SW_OPT_COLMAJOR :> v : v \in {TRUE, FALSE}},
        g \in {NoOpts} \cup {SW_OPT_CUDA :> v : v \in {TRUE}}}

\* The input arrays for a problem and options: shape = the dimensions,
\* element type and memory order as the options say (the call convention
\* of the compiled artifact), one element of SrcVals at an index with
\* coordinates 0 or 1 and 0 elsewhere.
SrcArrays(p, o) ==
    IF  /\ isinstance(p, "MddftProblem")
        /\ \A d \in 1..Len(p._ns) : p._ns[d] \in {1, 2, 4}
        /\ prod(p._ns) <= MaxElems
    THEN {[shape |-> p._ns,
           dtype |-> IF get(o, SW_OPT_REALCTYPE, "0") = "float"
                     THEN "complex64" ELSE "complex128",
           order |-> IF get(o, SW_OPT_COLMAJOR, FALSE) THEN "F" ELSE "C",
           data  |-> [j \in Index(p._ns) |-> IF j = at THEN v ELSE CZero]] :
             at \in {j \in Index(p._ns) : \A d \in 1..Len(j) : j[d] <= 1},
             v \in SrcVals}
    ELSE {}

(* ------------------------------- state --------------------------------- *)

VARIABLES
    problem,      \* the caller's argument for MddftSolver(problem, opts)
    opts,         \* the caller's options mapping
    src,          \* the caller's input array, None when it has none
    self,         \* the solver object, None before construction
    raised,       \* the exception the last constructor call raised, "" if none
    baseInit,     \* the names SWSolver.__init__ was called with
    pc,           \* where the call in progress stands, "idle" between calls
    dst,          \* solve: its destination array while the call runs
    calls,        \* the array-library and artifact calls of the call in
                  \* progress (or of the last call), in order
    ret,          \* what the last call returned, None while a call runs
    retOf,        \* "runDef" or "solve": which call returned it
    script_file,  \* the sink _writeScript printed to, None before
    cu_hostFile   \* the file _writeCudaHost wrote, None before

vars == <<problem, opts, src, self, raised, baseInit, pc, dst, calls, ret,
          retOf, script_file, cu_hostFile>>

inputs == <<problem, opts, src>>

Init ==
    /\ problem \in Problems \cup NonProblems
    /\ opts \in Options
    /\ src \in IF SrcArrays(problem, opts) = {} THEN {None}
               ELSE SrcArrays(problem, opts)
    /\ self = None
    /\ raised = ""
    /\ baseInit = {}
    /\ pc = "idle"
    /\ dst = None
    /\ calls = << >>
    /\ ret = None
    /\ retOf = ""
    /\ script_file = None
    /\ cu_hostFile = None

(* ------------------------------ operations ----------------------------- *)

\* MddftSolver(problem, opts)
Construct ==
    /\ pc = "idle"
    /\ IF ~isinstance(problem, "MddftProblem")
       THEN /\ raised' = "TypeError"
            /\ UNCHANGED <<self, baseInit>>
       ELSE /\ raised' = ""
            /\ baseInit' = baseInit \cup {namebase(problem, opts)}
            /\ self' = SWSolver__init__(problem, namebase(problem, opts), opts)
    /\ UNCHANGED <<inputs, pc, dst, calls, ret, retOf, script_file, cu_hostFile>>

\* self.runDef(src)
RunDef ==
    /\ pc = "idle"
    /\ self # None
    /\ src # None
    /\ ret' = runDef(self, src)
    /\ retOf' = "runDef"
    /\ calls' = IF direction(self._problem) = SW_FORWARD
                THEN <<"fftn">> ELSE <<"ifftn">>
    /\ UNCHANGED <<inputs, self, raised, baseInit, pc, dst,
                   script_file, cu_hostFile>>

\* self.solve(src) runs to its return in four steps, one per statement;
\* between SolveZeros and SolveReturn pc keeps every other operation out.

\* the destination array always allocated row-major
SolveZeros_rowMajor ==
    /\ pc = "idle"
    /\ self # None
    /\ src # None
    /\ dst' = zeros(dimensions(self._problem), src.dtype, "C")
    /\ calls' = <<"zeros">>
    /\ ret' = None
    /\ retOf' = ""
    /\ pc' = "solve_func"
    /\ UNCHANGED <<inputs, self, raised, baseInit, script_file, cu_hostFile>>

\* self.solve(src), lines 69-73: the destination array
SolveZeros ==
    /\ pc = "idle"
    /\ self # None
    /\ src # None
    /\ LET nt   == dimensions(self._problem)
           ordc == IF self._colMajor THEN "F" ELSE "C"
       IN  dst' = zeros(nt, src.dtype, ordc)
    /\ calls' = <<"zeros">>
    /\ ret' = None
    /\ retOf' = ""
    /\ pc' = "solve_func"
    /\ UNCHANGED <<inputs, self, raised, baseInit, script_file, cu_hostFile>>

\* self.solve(src), line 74: the compiled artifact
SolveFunc ==
    /\ pc = "solve_func"
    /\ dst' = _func(self, dst, src)
    /\ calls' = Append(calls, "_func")
    /\ pc' = "solve_divide"
    /\ UNCHANGED <<inputs, self, raised, baseInit, ret, retOf,
                   script_file, cu_hostFile>>

\* the rescaling done whatever the direction
SolveDivide_always ==
    /\ pc = "solve_divide"
    /\ dst' = divide(dst, size(dst))
    /\ calls' = Append(calls, "divide")
    /\ pc' = "solve_return"
    /\ UNCHANGED <<inputs, self, raised, baseInit, ret, retOf,
                   script_file, cu_hostFile>>

\* self.solve(src), lines 75-76: the rescaling of an inverse transform
SolveDivide ==
    /\ pc = "solve_divide"
    /\ IF direction(self._problem) = SW_INVERSE
       THEN /\ dst' = divide(dst, size(dst))
            /\ calls' = Append(calls, "divide")
       ELSE UNCHANGED <<dst, calls>>
    /\ pc' = "solve_return"
    /\ UNCHANGED <<inputs, self, raised, baseInit, ret, retOf,
                   script_file, cu_hostFile>>

\* self.solve(src), line 77
SolveReturn ==
    /\ pc = "solve_return"
    /\ ret' = dst
    /\ retOf' = "solve"
    /\ dst' = None
    /\ pc' = "idle"
    /\ UNCHANGED <<inputs, self, raised, baseInit, calls,
                   script_file, cu_hostFile>>

\* self._writeScript(script_file), on a sink the framework just opened
WriteScript ==
    /\ pc = "idle"
    /\ self # None
    /\ script_file' = [lines |-> _writeScript(self)]
    /\ UNCHANGED <<inputs, self, raised, baseInit, pc, dst, calls, ret, retOf,
                   cu_hostFile>>

\* self._writeCudaHost()
WriteCudaHost ==
    /\ pc = "idle"
    /\ self # None
    /\ cu_hostFile' = _writeCudaHost(self)
    /\ UNCHANGED <<inputs, self, raised, baseInit, pc, dst, calls, ret, retOf,
                   script_file>>

Next ==
    \/ Construct
    \/ RunDef
    \/ SolveZeros
    \/ SolveFunc
    \/ SolveDivide
    \/ SolveReturn
    \/ WriteScript
    \/ WriteCudaHost

Spec == Init /\ [][Next]_vars

(* ----------------------- the numeric calls alone ----------------------- *)

\* The caller that constructs a solver and only calls runDef and solve on
\* it: Spec without the two emitting operations, which touch neither the
\* arrays nor the solver.
NextSolve ==
    \/ Construct
    \/ RunDef
    \/ SolveZeros
    \/ SolveFunc
    \/ SolveDivide
    \/ SolveReturn

SpecSolve == Init /\ [][NextSolve]_vars

(* ---------------------- the emitting calls alone ------------------------ *)

\* The framework's build phase: it constructs a solver and only has it
\* emit the script and the host wrapper; Spec without runDef and solve,
\* which touch neither file nor the solver.
NextEmit ==
    \/ Construct
    \/ WriteScript
    \/ WriteCudaHost

SpecEmit == Init /\ [][NextEmit]_vars

(* ------------------------- reading emitted text ------------------------ *)

StartsWith(s, p) ==
    Len(s) >= Len(p) /\ SubSeq(s, 1, Len(p)) = p

EndsWith(s, p) ==
    Len(s) >= Len(p) /\ SubSeq(s, Len(s) - Len(p) + 1, Len(s)) = p

\* where sub first starts in s, 0 when it does not occur
Find(s, sub) ==
    LET at == {i \in 1..(Len(s) - Len(sub) + 1) : SubSeq(s, i, i + Len(sub) - 1) = sub}
    IN  IF at = {} THEN 0 ELSE CHOOSE i \in at : \A k \in at : i <= k

Contains(s, sub) == Find(s, sub) > 0

\* the text of s after the first sub, and before the first sub
After(s, sub) == SubSeq(s, Find(s, sub) + Len(sub), Len(s))

Before(s, sub) == SubSeq(s, 1, Find(s, sub) - 1)

\* the fields of s between the separators sep
RECURSIVE Split(_, _)
Split(s, sep) ==
    IF Contains(s, sep) THEN <<Before(s, sep)>> \o Split(After(s, sep), sep)
    ELSE <<s>>

IsDigits(s) ==
    Len(s) > 0 /\ \A i \in 1..Len(s) : Contains("0123456789", SubSeq(s, i, i))

\* the number a decimal numeral (with an optional minus sign) writes
RECURSIVE DecimalValue(_)
DecimalValue(s) ==
    IF StartsWith(s, "-") THEN -DecimalValue(Tail(s))
    ELSE IF Len(s) = 0 THEN 0
    ELSE 10 * DecimalValue(SubSeq(s, 1, Len(s) - 1))
           + (Find("0123456789", SubSeq(s, Len(s), Len(s))) - 1)

IsNumeral(s) ==
    IsDigits(s) \/ (StartsWith(s, "-") /\ IsDigits(Tail(s)))

\* the lines of a file that hold the text sub
LinesWith(lines, sub) ==
    {i \in 1..Len(lines) : Contains(lines[i], sub)}

\* what the options say, as the specification words it
realTypeIsFloat ==
    SW_OPT_REALCTYPE \in DOMAIN opts /\ opts[SW_OPT_REALCTYPE] = "float"

columnMajorIsSet ==
    SW_OPT_COLMAJOR \in DOMAIN opts /\ opts[SW_OPT_COLMAJOR] = TRUE

backendIsGPU ==
    SW_OPT_CUDA \in DOMAIN opts /\ opts[SW_OPT_CUDA] = TRUE

(* -------------------------------- claims ------------------------------- *)

\* C1: every name handed to the base solver is typeTag + "mddft_" +
\* fwd|inv + "_" + the dimensions in decimal joined by "x", then "_F"
\* exactly when columnMajor is set, with typeTag "c" when realType is
\* "float" and "z" otherwise; the same problem and options never give two
\* names.
C1_CanonicalName ==
    /\ Cardinality(baseInit) <= 1
    /\ \A name \in baseInit :
        LET head == (IF realTypeIsFloat THEN "c" ELSE "z") \o "mddft_"
                      \o (IF problem._k = SW_FORWARD THEN "fwd" ELSE "inv") \o "_"
            tail == IF columnMajorIsSet THEN "_F" ELSE ""
            dims == SubSeq(name, Len(head) + 1, Len(name) - Len(tail))
            fields == Split(dims, "x")
        IN  /\ StartsWith(name, head)
            /\ EndsWith(name, tail)
            /\ Len(name) >= Len(head) + Len(tail)
            /\ Len(fields) = Len(problem._ns)
            /\ \A d \in 1..Len(fields) :
                  IsDigits(fields[d]) /\ DecimalValue(fields[d]) = problem._ns[d]

C1_Witness ==
    /\ self # None
    /\ problem = MddftProblem(<<16, 4>>, SW_INVERSE)
    /\ realTypeIsFloat
    /\ columnMajorIsSet
    /\ baseInit = {"cmddft_inv_16x4_F"}

\* C5: with an argument that is no MddftProblem every constructor call
\* raises TypeError and nothing else happens: no solver, no name, no call
\* of the base solver's setup.
C5_TypeErrorFirst ==
    [][problem.class # "MddftProblem" =>
          (raised' = "TypeError" /\ self' = None /\ baseInit' = {})]_vars

C5_Witness ==
    /\ problem.class = "OtherProblem"
    /\ raised = "TypeError"
    /\ self = None
    /\ baseInit = {}

\* the unnormalized transform of the caller's input in the problem's
\* direction: exponent sign -1 forward, +1 inverse
Transform ==
    MDDFT(src.data, problem._ns, IF problem._k = SW_FORWARD THEN -1 ELSE 1)

\* an array's elements, each divided by n
Over(data, n) == [j \in DOMAIN data |-> CDiv(data[j], n)]

\* C2: solve divides every element of the artifact's output by the product
\* of the dimensions for an INVERSE problem and leaves it as it is for a
\* FORWARD problem; the division comes after the artifact's call on
\* (dst, src), never before.
C2_SolveDividesInverse ==
    LET out == MDDFT(src.data, problem._ns, problem._k * (-1))
    IN  /\ pc = "solve_func" =>
              calls = <<"zeros">> /\ \A j \in DOMAIN dst.data : dst.data[j] = CZero
        /\ pc = "solve_divide" =>
              calls = <<"zeros", "_func">> /\ dst.data = out
        /\ pc = "solve_return" \/ retOf = "solve" =>
              LET result == IF pc = "solve_return" THEN dst ELSE ret
              IN  IF problem._k = SW_INVERSE
                  THEN /\ calls = <<"zeros", "_func", "divide">>
                       /\ result.data = Over(out, prod(problem._ns))
                  ELSE /\ calls = <<"zeros", "_func">>
                       /\ result.data = out

C2_Witness ==
    /\ retOf = "solve"
    /\ problem = MddftProblem(<<2, 4>>, SW_INVERSE)
    /\ src.data[<<1, 1>>] = <<2, -1, 1>>
    /\ calls = <<"zeros", "_func", "divide">>
    /\ ret.data[<<0, 0>>] = <<2, -1, 8>>
    /\ ret.data[<<0, 1>>] = <<1, 2, 8>>

Between(s, a, b) == Before(After(s, a), b)

\* the one name the base solver was given
TheName == CHOOSE name \in baseInit : TRUE

\* C6: every emitted script has one MDDFT term, row-major or wrapped in
\* TColMajor, and its direction literal is the problem's direction times -1.
C6_DirectionInverted ==
    script_file # None =>
        LET lines == script_file.lines
            at == LinesWith(lines, "MDDFT(")
        IN  /\ Cardinality(at) = 1
            /\ \A i \in at :
                LET literal == Between(lines[i], "MDDFT(ns, ", ")")
                IN  /\ Contains(lines[i], "MDDFT(ns, ")
                    /\ IsNumeral(literal)
                    /\ DecimalValue(literal) = problem._k * (-1)
                    /\ \/ StartsWith(lines[i], "    TFCall(TRC(MDDFT(ns, ")
                       \/ StartsWith(lines[i], "    TFCall(TRC(TColMajor(MDDFT(ns, ")

C6_Witness ==
    /\ script_file # None
    /\ columnMajorIsSet
    /\ problem._k = SW_INVERSE
    /\ script_file.lines[6] =
         "    TFCall(TRC(TColMajor(MDDFT(ns, 1))), rec(fname := name, params := []))"

\* C7: in the emitted script the term's name is the canonical name, with
\* "_cu" appended exactly when the backend is GPU; the file of the final
\* PrintTo statement ends in ".cu" for GPU and in ".c" otherwise; the
\* configuration is confGPU() exactly when the backend is GPU and
\* defaultConf() otherwise.
C7_BackendNaming ==
    script_file # None =>
        LET lines == script_file.lines
            names == LinesWith(lines, "name := \"")
            confs == LinesWith(lines, "conf := ")
            outs  == LinesWith(lines, "PrintTo(")
        IN  /\ Cardinality(names) = 1
            /\ \A i \in names :
                 Between(lines[i], "name := \"", "\"")
                   = IF backendIsGPU THEN TheName \o "_cu" ELSE TheName
            /\ outs = {Len(lines) - 1}
            /\ \A i \in outs :
                 LET file == Between(lines[i], "PrintTo(\"", "\"")
                 IN  IF backendIsGPU THEN EndsWith(file, ".cu")
                     ELSE EndsWith(file, ".c")
            /\ Cardinality(confs) = 1
            /\ \A i \in confs :
                 lines[i] = IF backendIsGPU
                            THEN "conf := LocalConfig.fftx.confGPU();"
                            ELSE "conf := LocalConfig.fftx.defaultConf();"

C7_Witness ==
    /\ script_file # None
    /\ backendIsGPU
    /\ script_file.lines[3] = "conf := LocalConfig.fftx.confGPU();"
    /\ script_file.lines[5] = "    name := \"zmddft_fwd_4x16_cu\","
    /\ script_file.lines[12] = "PrintTo(\"zmddft_fwd_4x16.cu\", opts.prettyPrint(c));"

\* the kind of statement a script line belongs to, "" for an empty line
StatementKind(line) ==
    CASE line = ""                                  -> ""
      [] StartsWith(line, "Load(")                  -> "load"
      [] StartsWith(line, "ImportAll(")             -> "import"
      [] StartsWith(line, "conf := ")               -> "configuration"
      [] StartsWith(line, "t := let(ns := ")        -> "term"
      [] StartsWith(line, "    name := ")           -> "term name"
      [] StartsWith(line, "    TFCall(")            -> "term call"
      [] line = ");"                                -> "term end"
      [] StartsWith(line, "opts := conf.getOpts(")  -> "fetch options"
      [] StartsWith(line, "opts.TRealCtype := ")    -> "real type"
      [] StartsWith(line, "tt := opts.tagIt(")      -> "tag options"
      [] StartsWith(line, "c := opts.fftxGen(")     -> "generate"
      [] StartsWith(line, "PrintTo(")               -> "serialize"
      [] OTHER                                      -> "unknown"

\* the statement kinds of a script, in order, empty lines left out
RECURSIVE Statements(_)
Statements(lines) ==
    IF Len(lines) = 0 THEN << >>
    ELSE IF StatementKind(lines[1]) = "" THEN Statements(Tail(lines))
    ELSE <<StatementKind(lines[1])>> \o Statements(Tail(lines))

\* C10: the statements of every emitted script come in the one fixed
\* order: load, import, configuration, the term with its name and call,
\* fetch options, the real-type option (there exactly when realType is
\* "float", between fetching and tagging), tag options, generate,
\* serialize.
C10_StatementOrder ==
    script_file # None =>
        Statements(script_file.lines) =
            <<"load", "import", "configuration",
              "term", "term name", "term call", "term end", "fetch options">>
            \o (IF realTypeIsFloat THEN <<"real type">> ELSE << >>)
            \o <<"tag options", "generate", "serialize">>

C10_Witness ==
    /\ script_file # None
    /\ realTypeIsFloat
    /\ script_file.lines[8] = "opts := conf.getOpts(t);"
    /\ script_file.lines[9] = "opts.TRealCtype := \"float\";"
    /\ script_file.lines[10] = "tt := opts.tagIt(t);"

\* a line without its leading blanks
RECURSIVE Unindented(_)
Unindented(line) ==
    IF StartsWith(line, " ") THEN Unindented(Tail(line)) ELSE line

\* the element type of every parameter of the signature on a line
ParameterTypes(line) ==
    LET params == Split(Between(line, "(", ")"), ", ")
    IN  {Before(params[i], " ") : i \in 1..Len(params)}

\* C8: the host wrapper defines three entry points inside extern "C",
\* init_<name>, <name> and destroy_<name> in this order, each calling its
\* "_cu" symbol; it has one device-error check, right after the call of
\* <name>_cu inside <name>; the element type of the signatures is float
\* when realType is "float" and double otherwise.
C8_HostWrapper ==
    cu_hostFile # None =>
        LET lines  == cu_hostFile.lines
            block  == LinesWith(lines, "extern \"C\" {")
            defs   == {i \in 1..Len(lines) : StartsWith(lines[i], "void ")}
            checks == LinesWith(lines, "checkCudaErrors(")
            decls  == {i \in 1..Len(lines) : StartsWith(lines[i], "extern void ")}
            entry(i) == Between(lines[i], "void ", "(")
            type   == IF realTypeIsFloat THEN "float" ELSE "double"
        IN  /\ Cardinality(block) = 1
            /\ Cardinality(defs) = 3
            /\ lines[Len(lines)] = "}"
            /\ \A i \in defs : \A b \in block : b < i /\ i < Len(lines)
            /\ \E a, b, c \in defs :
                /\ a < b /\ b < c
                /\ entry(a) = "init_" \o TheName
                /\ entry(b) = TheName
                /\ entry(c) = "destroy_" \o TheName
                /\ Unindented(lines[a + 1]) = "init_" \o TheName \o "_cu();"
                /\ Unindented(lines[b + 1]) = TheName \o "_cu(Y, X);"
                /\ Unindented(lines[c + 1]) = "destroy_" \o TheName \o "_cu();"
                /\ StartsWith(lines[a + 2], "}")
                /\ checks = {b + 2}
                /\ StartsWith(lines[b + 3], "}")
                /\ StartsWith(lines[c + 2], "}")
                /\ ParameterTypes(lines[b]) = {type}
            /\ \A i \in decls :
                  ParameterTypes(lines[i]) \in {{type}, {""}}
            /\ \E i \in decls : ParameterTypes(lines[i]) = {type}

C8_Witness ==
    /\ cu_hostFile # None
    /\ realTypeIsFloat
    /\ cu_hostFile.name = "cmddft_fwd_4x4_host.cu"
    /\ cu_hostFile.lines[17] = "void cmddft_fwd_4x4(float  *Y, float  *X) {"
    /\ cu_hostFile.lines[18] = "    cmddft_fwd_4x4_cu(Y, X);"
    /\ cu_hostFile.lines[19] = "    checkCudaErrors(cudaGetLastError());"

\* C9: the three uses of the layout agree: the canonical name ends in "_F"
\* exactly when the emitted script wraps the MDDFT term in TColMajor, and
\* exactly when solve allocates its destination array in column-major
\* order; with a row-major layout there is none of the three.
C9_LayoutAgrees ==
    self # None =>
        LET named == EndsWith(TheName, "_F")
        IN  /\ named <=> columnMajorIsSet
            /\ script_file # None =>
                 (named <=> LinesWith(script_file.lines, "TColMajor(") # {})
            /\ dst # None =>
                 dst.order = IF named THEN "F" ELSE "C"
            /\ retOf = "solve" =>
                 ret.order = IF named THEN "F" ELSE "C"

C9_Witness ==
    /\ self # None
    /\ columnMajorIsSet
    /\ EndsWith(TheName, "_F")
    /\ script_file # None
    /\ LinesWith(script_file.lines, "TColMajor(") = {6}
    /\ retOf = "solve"
    /\ ret.order = "F"

====
